---- MODULE Spec2Model ----
(***************************************************************************)
(* Model of dpt (src/dpt.py): loading and validating a landscape, the      *)
(* confirmation gate, the build directory set-up and the threaded          *)
(* execution of one external executable per infrastructure.                *)
(*                                                                         *)
(* One run of main() is one behaviour.  The command line, the rendered     *)
(* landscape and the answers of the environment (key presses, I/O errors,  *)
(* exit codes of the external executables) are the inputs.  The files      *)
(* below <cwd>/build are part of the state; an earlier run has left the    *)
(* build directory of the infrastructure `web` there.                      *)
(*                                                                         *)
(* Environment assumption: threading.Thread.start() succeeds (the          *)
(* RuntimeError for an exhausted thread limit, caught at dpt.py:432, is    *)
(* not modelled).                                                          *)
(***************************************************************************)
EXTENDS Integers, Sequences, FiniteSets, TLC

\* ------------------------------------------------------------------ bounds

\* The largest number of infrastructures of a landscape.
MaxInfra == 3

\* ------------------------------------------------------- YAML values, refs

\* A YAML string is modelled by its whitespace tokens (what str.split() yields).
Str(tokens) == [type |-> "str", tokens |-> tokens]
YList == [type |-> "list"]
YInt == [type |-> "int"]

\* The directories below <base_path>/Deployment/providers that hold an
\* executable file `provider` (os.path.exists and os.access(.., X_OK)).
ExecutableProviders == { <<"aws">>, <<"my", "own", "cloud">> }

\* The directories below <base_path>/Provisioning/provisioners that hold an
\* executable file `provisioner`.
ExecutableProvisioners == { <<"salt">> }

\* An infrastructure configuration with provider p, provisioner v and hosts.
Config(p, v) == [provider |-> Str(p), hosts |-> YList, provisioner |-> Str(v)]

\* The same without the key `provisioner`, which the schema does not ask for.
ConfigNoProvisioner(p) == [provider |-> Str(p), hosts |-> YList]

\* The infrastructure configurations of the landscapes that are explored:
\* one that resolves, those with a missing provider, a missing provisioner or
\* both, with no provisioner, with a provider of three tokens, and two that
\* violate the schema.
Configs ==
    { Config(<<"aws">>, <<"salt">>),
      Config(<<"nope">>, <<"salt">>),
      Config(<<"aws">>, <<"none">>),
      Config(<<"nope">>, <<"none">>),
      Config(<<"aws", "x", "y">>, <<"salt">>),
      ConfigNoProvisioner(<<"aws">>),
      ConfigNoProvisioner(<<"nope">>),
      [hosts |-> YList, provisioner |-> Str(<<"salt">>)],
      [provider |-> Str(<<"aws">>), hosts |-> YInt, provisioner |-> Str(<<"salt">>)] }

\* Landscapes of one infrastructure that resolve and whose references have
\* more than one word: a provider with arguments, a provisioner with
\* arguments, and a provider reference of three words that is the name of a
\* provider directory.
ReferenceLandscapes ==
    { << Config(<<"aws", "x">>, <<"salt">>) >>,
      << Config(<<"aws">>, <<"salt", "y">>) >>,
      << Config(<<"my", "own", "cloud">>, <<"salt">>) >> }

\* What yaml.safe_load(template.render()) can give: an exception
\* ("unreadable"), or a mapping of infrastructure names to configurations.
\* A mapping is given by its configurations, in the mapping's order, and its
\* keys (the names) in the same order; the empty mapping is the empty
\* landscape.
Landscapes == UNION { [1..n -> Configs] : n \in 0..MaxInfra } \cup ReferenceLandscapes

\* A key of the mapping: YAML decodes `1` to the integer 1 and `"1"` to the
\* string '1'; the two are different keys of one dict.
Key(type, text) == [type |-> type, text |-> text]

\* The names of the landscapes that are explored: words, and for two
\* infrastructures also the integer 1 beside the string '1'.
Words == << Key("str", "web"), Key("str", "db"), Key("str", "cache"),
           Key("str", "lb"), Key("str", "mq") >>
NameLists(n) ==
    { SubSeq(Words, 1, n) } \cup
    (IF n = 2 THEN { << Key("int", "1"), Key("str", "1") >> } ELSE {})

\* f'{name}': the text of a key, whatever its type.
Format(name) == name.text

\* The files below <cwd>/build when the run starts: directory -> file ->
\* content.  An earlier run has left build/web with its descriptor, a log and
\* a file the provider wrote there.
PriorDisk ==
    (<< "build", "web" >> :>
        [f \in { "config_provider", "output_provider", "terraform.tfstate" } |->
            [from |-> "earlier run", file |-> f]])

Commands == { "deploy", "destroy", "provide", "show-provider", "show-provisioner" }

\* Exit codes an external executable ends with.
ExitCodes == { 0, 1 }

VARIABLES
    command,          \* args.command
    interactive,      \* args.interactive
    source,           \* the landscape file: whether it renders and decodes, and to what
    landscape,        \* the decoded landscape (content)
    mpc,              \* position of the main thread
    exitcode,         \* exit code of the process, -1 while it runs
    msgs,             \* the lines of the error handed to CLI.exit_on_error
    infrastructures,  \* the plan validate returned: name -> entry
    built,            \* build directories created or written by this run
    call_list,        \* fire_threads' argument
    wpc,              \* per task: position of its worker thread
    returncode,       \* per task: exit code of its process, -1 if none
    launches,         \* per task: the Popen calls made, as argument records
    report,           \* per task: what execute printed at its end: "none", "ok", "fail"
    puts,             \* per task: the number of q.put calls it made
    toget,            \* q.get calls fire_threads has still to make
    q,                \* the queue.Queue of fire_threads
    jobs,             \* fire_threads' list of Thread objects (indices of call_list)
    fi,               \* index of the running for loop in fire_threads
    thread_errors,    \* what fire_threads drained from q
    result,           \* what fire_threads returned: "none", "True" or "False"
    lastkey,          \* the key wait_for_key read last, "none" before the first
    disk,             \* the files below <cwd>/build: directory -> file -> content
    interrupted,      \* when SIGINT was delivered last: "no", "before batch", "in batch"
    infrastructure,   \* args.infrastructure, "none" if the command takes none
    shown             \* the files show_log has printed, as their contents

vars == << command, interactive, source, landscape, mpc, exitcode, msgs,
           infrastructures, built, call_list, wpc, returncode, launches, report,
           puts, toget, q, jobs, fi, thread_errors, result, lastkey, disk, interrupted,
           infrastructure, shown >>

inputVars == << command, interactive, source, infrastructure >>

\* The key of the n-th item of the decoded mapping.
Name(n) == source.names[n]
engineVars == << call_list, wpc, returncode, launches, report, puts, toget, q, jobs, fi,
                thread_errors, result >>

\* --------------------------------------------------------------- validate

\* schema.Schema({object: {'provider': str, 'hosts': list}}, ignore_extra_keys=True)
SchemaOk(config) ==
    /\ "provider" \in DOMAIN config
    /\ config["provider"].type = "str"
    /\ "hosts" \in DOMAIN config
    /\ config["hosts"].type = "list"

\* The names of the infrastructures the schema rejects.
SchemaViolations(content) == { n \in DOMAIN content : ~SchemaOk(content[n]) }

\* The keys the schema asks for, with the type of their values.
SchemaKeys == [provider |-> "str", hosts |-> "list"]

\* The keys of a configuration whose value has the wrong type, and the keys
\* that are missing.
WrongType(config) ==
    { f \in DOMAIN SchemaKeys \cap DOMAIN config : config[f].type # SchemaKeys[f] }
MissingKeys(config) == DOMAIN SchemaKeys \ DOMAIN config

\* What the one SchemaError that landscape_schema.validate raises can name
\* of a configuration: validation stops at the first value of the wrong
\* type; keys are found missing, all at once, only after every value has
\* validated.
SchemaError(config) ==
    IF WrongType(config) # {}
    THEN { { f } : f \in WrongType(config) }
    ELSE { MissingKeys(config) }

\* `name, args = ref.split()`, and on ValueError `name = ref; args = None`.
\* A name is given by its tokens; None is the empty sequence of arguments.
SplitRef(ref) ==
    IF Len(ref.tokens) = 2
    THEN [name |-> << ref.tokens[1] >>, args |-> << ref.tokens[2] >>]
    ELSE [name |-> ref.tokens, args |-> << >>]

ProviderDir(name) == << "Deployment", "providers", name >>
ProvisionerDir(name) == << "Provisioning", "provisioners", name >>
BuildDir(name) == << "build", Format(name) >>

\* os.path.exists(provider_path) and os.access(provider_path, os.X_OK)
ProviderExecutable(name) == name \in ExecutableProviders
ProvisionerExecutable(name) == name \in ExecutableProvisioners

\* One iteration of validate's loop over landscape.items().  `acc` holds
\* infrastructures, msgs, errors and whether an exception was raised.
ResolveOne(acc, n, config) ==
    LET prov == SplitRef(config["provider"]) IN
    IF ~ProviderExecutable(prov.name)
    THEN [acc EXCEPT !.msgs = Append(@, [kind |-> "Provider", ref |-> config["provider"],
                                         path |-> ProviderDir(prov.name)]),
                     !.errors = TRUE]
    ELSE IF "provisioner" \notin DOMAIN config
    THEN [acc EXCEPT !.raised = TRUE]
    ELSE
    LET pvs == SplitRef(config["provisioner"]) IN
    IF ~ProvisionerExecutable(pvs.name)
    THEN [acc EXCEPT !.msgs = Append(@, [kind |-> "Provisioner", ref |-> config["provisioner"],
                                         path |-> ProvisionerDir(pvs.name)]),
                     !.errors = TRUE]
    ELSE [acc EXCEPT !.infrastructures = @ @@ (n :>
              [config |-> config @@ [name |-> Name(n)],
               provider_dir |-> ProviderDir(prov.name),
               provider_args |-> prov.args,
               provisioner_dir |-> ProvisionerDir(pvs.name),
               provisioner_config |-> << BuildDir(Name(n)), "config_provisioner" >>,
               build_dir |-> BuildDir(Name(n))])]

\* validate's loop from infrastructure n on; an uncaught exception ends it.
RECURSIVE ResolveFrom(_, _, _)
ResolveFrom(content, n, acc) ==
    IF n > Len(content) \/ acc.raised
    THEN acc
    ELSE ResolveFrom(content, n + 1, ResolveOne(acc, n, content[n]))

Resolve(content) ==
    ResolveFrom(content, 1,
                [infrastructures |-> << >>, msgs |-> << >>, errors |-> FALSE, raised |-> FALSE])

\* ------------------------------------------------------------------- Init

\* f'{build_dir}/output_{category}'
OutputFile(category) == "output_" \o category

ShowCommands == { "show-provider", "show-provisioner" }

\* The INFRASTRUCTURE arguments of the show commands that are explored: one
\* with a build directory of an earlier run and one without.
ShowTargets == { "web", "db" }

\* The state when main() has parsed the command line.  The show commands take
\* no landscape file and no --non-interactive option.
Init ==
    /\ command \in Commands
    /\ IF command \in ShowCommands
       THEN /\ interactive = TRUE
            /\ source = [readable |-> FALSE, names |-> << >>, content |-> << >>]
       ELSE /\ interactive \in BOOLEAN
            /\ source \in { [readable |-> FALSE, names |-> << >>, content |-> << >>] }
                           \cup UNION { { [readable |-> TRUE, names |-> nm, content |-> c] :
                                            nm \in NameLists(Len(c)) } : c \in Landscapes }
    /\ landscape = << >>
    /\ mpc = "main"
    /\ exitcode = -1
    /\ msgs = << >>
    /\ infrastructures = << >>
    /\ built = {}
    /\ call_list = << >>
    /\ wpc = << >>
    /\ returncode = << >>
    /\ launches = << >>
    /\ report = << >>
    /\ puts = << >>
    /\ toget = 0
    /\ q = << >>
    /\ jobs = << >>
    /\ fi = 0
    /\ thread_errors = << >>
    /\ result = "none"
    /\ lastkey = "none"
    /\ disk = PriorDisk
    /\ interrupted = "no"
    /\ infrastructure \in IF command \in ShowCommands THEN ShowTargets ELSE { "none" }
    /\ shown = << >>

\* ------------------------------------------------------------- main thread

\* CLI.exit_on_error(text, code) and sys.exit(code): the process ends.
Exit(code, text) ==
    /\ exitcode' = code
    /\ msgs' = text
    /\ mpc' = "exited"

\* The path main hands to show_log: f'./build/{args.infrastructure}/output_provider'
\* or .../output_provisioner, as directory and file.
LogDir == << "build", infrastructure >>
LogFile == OutputFile(IF command = "show-provider" THEN "provider" ELSE "provisioner")

\* Faulty variant of show_log: the provider's log is shown for both commands.
show_logProviderOnly ==
    /\ mpc = "main"
    /\ command \in ShowCommands
    /\ \E readable \in BOOLEAN :
          IF readable /\ LogDir \in DOMAIN disk /\ "output_provider" \in DOMAIN disk[LogDir]
          THEN /\ shown' = Append(shown, disk[LogDir]["output_provider"])
               /\ Exit(0, << >>)
          ELSE /\ Exit(3, << [kind |-> "Error reading log"] >>)
               /\ UNCHANGED shown
    /\ UNCHANGED << inputVars, lastkey, disk, interrupted, landscape, infrastructures, built, engineVars >>

\* show_log, called for show-provider and show-provisioner, then sys.exit(0):
\* the file is opened for reading and printed; open or read may fail also
\* when the file is there.
show_log ==
    /\ mpc = "main"
    /\ command \in ShowCommands
    /\ \E readable \in BOOLEAN :
          IF readable /\ LogDir \in DOMAIN disk /\ LogFile \in DOMAIN disk[LogDir]
          THEN /\ shown' = Append(shown, disk[LogDir][LogFile])
               /\ Exit(0, << >>)
          ELSE /\ Exit(3, << [kind |-> "Error reading log"] >>)
               /\ UNCHANGED shown
    /\ UNCHANGED << inputVars, lastkey, disk, interrupted, landscape, infrastructures, built, engineVars >>

\* Faulty variant of load_landscape: the empty landscape is handed on like a
\* landscape of zero infrastructures.
load_landscapeNoEmptyCheck ==
    /\ mpc = "main"
    /\ command \notin ShowCommands
    /\ IF ~source.readable
       THEN /\ Exit(2, << [kind |-> "Error reading landscape"] >>)
            /\ UNCHANGED landscape
       ELSE /\ landscape' = source.content
            /\ mpc' = "validate"
            /\ UNCHANGED << exitcode, msgs >>
    /\ UNCHANGED << inputVars, shown, lastkey, disk, interrupted, infrastructures, built, engineVars >>

\* load_landscape: render, decode, reject the empty landscape.
load_landscape ==
    /\ mpc = "main"
    /\ command \notin ShowCommands
    /\ IF ~source.readable
       THEN /\ Exit(2, << [kind |-> "Error reading landscape"] >>)
            /\ UNCHANGED landscape
       ELSE IF source.content = << >>
       THEN /\ Exit(2, << [kind |-> "The landscape is empty"] >>)
            /\ UNCHANGED landscape
       ELSE /\ landscape' = source.content
            /\ mpc' = "validate"
            /\ UNCHANGED << exitcode, msgs >>
    /\ UNCHANGED << inputVars, shown, lastkey, disk, interrupted, infrastructures, built, engineVars >>

\* validate: the schema check, then the loop that builds the plan.  The
\* schema check raises at the first infrastructure that violates the schema
\* (which one it meets first is the schema package's matter), and the handler
\* prints the lines of that one exception.  The loop
\* writes the name into the configuration of every infrastructure it accepts.
\* An exception the loop does not catch ends the process with a traceback and
\* exit code 1.
validate ==
    /\ mpc = "validate"
    /\ IF SchemaViolations(landscape) # {}
       THEN /\ \E n \in SchemaViolations(landscape) : \E fields \in SchemaError(landscape[n]) :
                  Exit(2, << [kind |-> "Errors during schema validation"],
                             [kind |-> "Key error", name |-> Name(n), fields |-> fields] >>)
            /\ UNCHANGED << landscape, infrastructures >>
       ELSE LET r == Resolve(landscape)
                named == [n \in DOMAIN landscape |->
                             IF n \in DOMAIN r.infrastructures
                             THEN r.infrastructures[n].config
                             ELSE landscape[n]]
            IN  IF r.raised
                THEN /\ Exit(1, << >>)
                     /\ landscape' = named
                     /\ UNCHANGED infrastructures
                ELSE IF r.errors
                THEN /\ Exit(2, r.msgs)
                     /\ landscape' = named
                     /\ UNCHANGED infrastructures
                ELSE /\ infrastructures' = r.infrastructures
                     /\ landscape' = named
                     /\ mpc' = "gate"
                     /\ UNCHANGED << exitcode, msgs >>
    /\ UNCHANGED << inputVars, shown, lastkey, disk, interrupted, built, engineVars >>

\* The keys readchar.readkey() may return: 'Y', 'n' and any other key.
Keys == { "Y", "n", "x" }

\* Faulty variant of AfterGate: no command sets up the build directories.
AfterGateNoSetup == "fire"

\* Where main goes once the gate has been passed.
AfterGate == IF command \in { "deploy", "destroy" } THEN "setup" ELSE "fire"

\* Faulty variant of wait_for_key: every key but 'n' is taken as consent.
wait_for_keyDefaultYes ==
    /\ mpc = "gate"
    /\ IF ~interactive
       THEN /\ mpc' = AfterGate
            /\ UNCHANGED << exitcode, msgs, lastkey >>
       ELSE \E key \in Keys :
              /\ lastkey' = key
              /\ IF key = "n"
                 THEN Exit(2, << [kind |-> "User interruption"] >>)
                 ELSE /\ mpc' = AfterGate
                      /\ UNCHANGED << exitcode, msgs >>
    /\ UNCHANGED << inputVars, shown, disk, interrupted, landscape, infrastructures, built, engineVars >>

\* `if args.interactive and not wait_for_key(...)`: one key is read per step;
\* a key outside the mapping is read and ignored.
wait_for_key ==
    /\ mpc = "gate"
    /\ IF ~interactive
       THEN /\ mpc' = AfterGate
            /\ UNCHANGED << exitcode, msgs, lastkey >>
       ELSE \E key \in Keys :
              /\ lastkey' = key
              /\ IF key = "Y"
                 THEN /\ mpc' = AfterGate
                      /\ UNCHANGED << exitcode, msgs >>
                 ELSE IF key = "n"
                 THEN Exit(2, << [kind |-> "User interruption"] >>)
                 ELSE UNCHANGED << mpc, exitcode, msgs >>
    /\ UNCHANGED << inputVars, shown, disk, interrupted, landscape, infrastructures, built, engineVars >>

\* The infrastructures setup_infrastructures has still to visit, and the next.
ToSetUp == { n \in DOMAIN infrastructures : n \notin built }
NextToSetUp == CHOOSE n \in ToSetUp : \A m \in ToSetUp : n <= m

\* `if not os.path.exists(build_dir): os.mkdir(build_dir, mode=0o700)`
MakeDir(dsk, dir) == IF dir \in DOMAIN dsk THEN dsk ELSE dsk @@ (dir :> << >>)

\* open(path, 'w') and write: the file is created or replaced.
WriteFile(dsk, dir, file, content) == [dsk EXCEPT ![dir] = (file :> content) @@ @]

\* yaml.safe_dump(infrastructures[infrastructure]), the content of the descriptor.
Descriptor(n) == [dump |-> infrastructures[n]]

\* Faulty variant of SetupDir, the loop body of deploy.py's
\* setup_infrastructures: an existing build directory is removed first.
SetupDirWipe(dsk, n) ==
    [d \in DOMAIN dsk \cup { infrastructures[n].build_dir } |->
        IF d = infrastructures[n].build_dir
        THEN ("config_provider" :> Descriptor(n))
        ELSE dsk[d]]

\* The body of setup_infrastructures' loop for infrastructure n, without a
\* failure: the disk it leaves.
SetupDir(dsk, n) ==
    WriteFile(MakeDir(dsk, infrastructures[n].build_dir),
              infrastructures[n].build_dir, "config_provider", Descriptor(n))

\* Faulty variant of setup_infrastructures: an I/O error is passed over and
\* the loop goes on with the next infrastructure.
setup_infrastructuresGoesOn ==
    /\ mpc = "setup"
    /\ IF ToSetUp = {}
       THEN /\ mpc' = "fire"
            /\ UNCHANGED << exitcode, msgs, built, disk >>
       ELSE \E outcome \in { "ok", "mkdir fails", "write fails" } :
              /\ outcome = "mkdir fails" =>
                     infrastructures[NextToSetUp].build_dir \notin DOMAIN disk
              /\ built' = built \cup { NextToSetUp }
              /\ disk' = IF outcome = "ok" THEN SetupDir(disk, NextToSetUp)
                         ELSE IF outcome = "write fails"
                         THEN MakeDir(disk, infrastructures[NextToSetUp].build_dir)
                         ELSE disk
              /\ UNCHANGED << mpc, exitcode, msgs >>
    /\ UNCHANGED << inputVars, shown, lastkey, interrupted, landscape, infrastructures, engineVars >>

\* One iteration of setup_infrastructures: mkdir if absent, write the
\* descriptor config_provider.  An I/O error ends the run with exit code 2:
\* os.mkdir fails, or the directory is there and the descriptor cannot be
\* opened.
setup_infrastructures ==
    /\ mpc = "setup"
    /\ IF ToSetUp = {}
       THEN /\ mpc' = "fire"
            /\ UNCHANGED << exitcode, msgs, built, disk >>
       ELSE \E outcome \in { "ok", "mkdir fails", "write fails" } :
              /\ outcome = "mkdir fails" =>
                     infrastructures[NextToSetUp].build_dir \notin DOMAIN disk
              /\ IF outcome = "ok"
                 THEN /\ built' = built \cup { NextToSetUp }
                      /\ disk' = SetupDir(disk, NextToSetUp)
                      /\ UNCHANGED << mpc, exitcode, msgs >>
                 ELSE /\ Exit(2, << [kind |-> "Error setting up build directory",
                                     name |-> Name(NextToSetUp), err |-> outcome] >>)
                      /\ built' = IF outcome = "write fails"
                                  THEN built \cup { NextToSetUp } ELSE built
                      /\ disk' = IF outcome = "write fails"
                                 THEN MakeDir(disk, infrastructures[NextToSetUp].build_dir)
                                 ELSE disk
    /\ UNCHANGED << inputVars, shown, lastkey, interrupted, landscape, infrastructures, engineVars >>

\* ------------------------------------------------------------ fire_threads

Category == IF command = "provide" THEN "provisioner" ELSE "provider"

\* Faulty variant of CallList: deploy hands the provider and the provisioner
\* of every plan entry to one batch.
CallListBoth ==
    LET names == DOMAIN infrastructures
        Nth[i \in 1..Cardinality(names)] ==
            CHOOSE n \in names : Cardinality({ m \in names : m <= n }) = i
    IN  [i \in 1..(2 * Cardinality(names)) |->
            LET n == Nth[(i + 1) \div 2] IN
            [category |-> IF i % 2 = 1 /\ command # "provide" THEN "provider" ELSE "provisioner",
             name |-> Name(n),
             dir |-> IF i % 2 = 1 /\ command # "provide"
                     THEN infrastructures[n].provider_dir
                     ELSE infrastructures[n].provisioner_dir,
             command |-> IF i % 2 = 1 THEN command ELSE "provide",
             build_dir |-> infrastructures[n].build_dir]]

\* The list main hands to fire_threads: one tuple per plan entry, in the
\* plan's order: (category, name, dir, command, build_dir).
CallList ==
    LET names == DOMAIN infrastructures
        Nth[i \in 1..Cardinality(names)] ==
            CHOOSE n \in names : Cardinality({ m \in names : m <= n }) = i
    IN  [i \in 1..Cardinality(names) |->
            [category |-> Category,
             name |-> Name(Nth[i]),
             dir |-> IF command = "provide"
                     THEN infrastructures[Nth[i]].provisioner_dir
                     ELSE infrastructures[Nth[i]].provider_dir,
             command |-> command,
             build_dir |-> infrastructures[Nth[i]].build_dir]]

\* fire_threads, up to the creation of the Thread objects.
fire_threads ==
    /\ mpc = "fire"
    /\ call_list' = CallList
    /\ q' = << >>
    /\ jobs' = [k \in 1..Len(CallList) |-> k]
    /\ wpc' = [k \in 1..Len(CallList) |-> "created"]
    /\ returncode' = [k \in 1..Len(CallList) |-> -1]
    /\ launches' = [k \in 1..Len(CallList) |-> << >>]
    /\ report' = [k \in 1..Len(CallList) |-> "none"]
    /\ puts' = [k \in 1..Len(CallList) |-> 0]
    /\ fi' = 0
    /\ mpc' = "start"
    /\ UNCHANGED << inputVars, shown, lastkey, disk, interrupted, landscape, exitcode, msgs, infrastructures, built,
                    toget, thread_errors, result >>

\* Faulty variant of StartJob: the start loop stops at the first failure that
\* has been queued (fail-fast).
StartJobFailFast ==
    /\ mpc = "start"
    /\ IF fi < Len(jobs) /\ q = << >>
       THEN /\ wpc' = [wpc EXCEPT ![jobs[fi + 1]] = "started"]
            /\ fi' = fi + 1
            /\ UNCHANGED mpc
       ELSE /\ mpc' = "while"
            /\ UNCHANGED << wpc, fi >>
    /\ UNCHANGED << inputVars, shown, lastkey, disk, interrupted, landscape, exitcode, msgs, infrastructures, built,
                    call_list, returncode, launches, report, puts, toget, q, jobs,
                    thread_errors, result >>

\* `for job in jobs: job.start()`, one iteration; after the last one the
\* polling loop is entered.
StartJob ==
    /\ mpc = "start"
    /\ IF fi < Len(jobs)
       THEN /\ wpc' = [wpc EXCEPT ![jobs[fi + 1]] = "started"]
            /\ fi' = fi + 1
            /\ UNCHANGED mpc
       ELSE /\ mpc' = "while"
            /\ UNCHANGED << wpc, fi >>
    /\ UNCHANGED << inputVars, shown, lastkey, disk, interrupted, landscape, exitcode, msgs, infrastructures, built,
                    call_list, returncode, launches, report, puts, toget, q, jobs,
                    thread_errors, result >>

\* `while len(jobs) > 0:` starts a new `for job in jobs` or leaves the loop.
PollWhile ==
    /\ mpc = "while"
    /\ IF Len(jobs) > 0
       THEN /\ mpc' = "for"
            /\ fi' = 0
       ELSE /\ mpc' = "drain"
            /\ UNCHANGED fi
    /\ UNCHANGED << inputVars, shown, lastkey, disk, interrupted, landscape, exitcode, msgs, infrastructures, built,
                    call_list, wpc, returncode, launches, report, puts, toget, q, jobs,
                    thread_errors, result >>

\* job.is_alive()
IsAlive(job) == wpc[job] \in { "started", "running" }

\* jobs.remove(job): the list without its first element equal to job.
Remove(list, job) ==
    LET at == CHOOSE k \in 1..Len(list) :
                  list[k] = job /\ \A j \in 1..(k - 1) : list[j] # job
    IN  [k \in 1..(Len(list) - 1) |-> IF k < at THEN list[k] ELSE list[k + 1]]

\* One iteration of `for job in jobs`: the list iterator yields jobs[fi] and
\* advances, the body removes the job from the list if its thread is dead.
\* The iterator ends when its index has reached the length the list has then.
PollFor ==
    /\ mpc = "for"
    /\ IF fi < Len(jobs)
       THEN /\ jobs' = IF IsAlive(jobs[fi + 1]) THEN jobs ELSE Remove(jobs, jobs[fi + 1])
            /\ fi' = fi + 1
            /\ UNCHANGED mpc
       ELSE /\ mpc' = "while"
            /\ UNCHANGED << jobs, fi >>
    /\ UNCHANGED << inputVars, shown, lastkey, disk, interrupted, landscape, exitcode, msgs, infrastructures, built,
                    call_list, wpc, returncode, launches, report, puts, toget, q,
                    thread_errors, result >>

\* Faulty variant of DrainCount: one q.get() per task of the batch.
DrainCountPerTask == Len(call_list)

\* range(q.qsize()): the number of q.get() calls the comprehension makes.
DrainCount == Len(q)

\* `thread_errors = [q.get() for _ in range(q.qsize())]`: the range is fixed,
DrainBegin ==
    /\ mpc = "drain"
    /\ toget' = DrainCount
    /\ mpc' = "get"
    /\ UNCHANGED << inputVars, shown, lastkey, disk, interrupted, landscape, exitcode, msgs, infrastructures, built,
                    call_list, wpc, returncode, launches, report, puts, q, jobs, fi,
                    thread_errors, result >>

\* then one blocking q.get() per element of the range: it waits while the
\* queue is empty.
Get ==
    /\ mpc = "get"
    /\ toget > 0
    /\ q # << >>
    /\ thread_errors' = Append(thread_errors, Head(q))
    /\ q' = Tail(q)
    /\ toget' = toget - 1
    /\ UNCHANGED << inputVars, shown, lastkey, disk, interrupted, landscape, mpc, exitcode, msgs, infrastructures, built,
                    call_list, wpc, returncode, launches, report, puts, jobs, fi, result >>

\* `if True in thread_errors: return False`, else `return True`.
Return ==
    /\ mpc = "get"
    /\ toget = 0
    /\ result' = IF \E k \in 1..Len(thread_errors) : thread_errors[k] = TRUE
                 THEN "False" ELSE "True"
    /\ mpc' = "returned"
    /\ UNCHANGED << inputVars, shown, lastkey, disk, interrupted, landscape, exitcode, msgs, infrastructures, built,
                    call_list, wpc, returncode, launches, report, puts, toget, q, jobs, fi,
                    thread_errors >>

\* Faulty variant of AfterBatch: a failed batch ends with exit code 2.
AfterBatchExit2 ==
    /\ mpc = "returned"
    /\ IF result = "False"
       THEN Exit(2, << [kind |-> "Deployment failed"] >>)
       ELSE Exit(0, << >>)
    /\ UNCHANGED << inputVars, shown, lastkey, disk, interrupted, landscape, infrastructures, built, engineVars >>

\* main after fire_threads: exit code 3 if it returned False, else 0.
AfterBatch ==
    /\ mpc = "returned"
    /\ IF result = "False"
       THEN Exit(3, << [kind |-> IF command = "provide"
                                THEN "Provisioning failed" ELSE "Deployment failed"] >>)
       ELSE Exit(0, << >>)
    /\ UNCHANGED << inputVars, shown, lastkey, disk, interrupted, landscape, infrastructures, built, engineVars >>

\* ---------------------------------------------------------------- execute

\* The tasks of the batch: the indices of call_list.
Tasks == DOMAIN wpc

\* What a worker thread leaves unchanged.
mainFrame == << inputVars, shown, lastkey, interrupted, landscape, mpc, exitcode, msgs, infrastructures, built,
                call_list, toget, jobs, fi, thread_errors, result >>

\* execute, to the start of the process: the log file is opened in the build
\* directory, which must exist for that, and
\* subprocess.Popen([executable, command], stdout=output_file, cwd=build_dir)
\* succeeds; the log is what that process writes.
Launch(t) ==
    /\ t \in Tasks
    /\ wpc[t] = "started"
    /\ call_list[t].build_dir \in DOMAIN disk
    /\ wpc' = [wpc EXCEPT ![t] = "running"]
    /\ launches' = [launches EXCEPT ![t] = Append(@,
           [executable |-> << call_list[t].dir, call_list[t].category >>,
            command |-> call_list[t].command,
            cwd |-> call_list[t].build_dir])]
    /\ disk' = WriteFile(disk, call_list[t].build_dir, OutputFile(call_list[t].category),
                         [from |-> "task", file |-> call_list[t].name])
    /\ UNCHANGED << mainFrame, returncode, report, puts, q >>

\* The disks execute can leave when open() or Popen() has raised: the disk as
\* it was if open() raised, and, if the build directory is there, the disk
\* with the log created or emptied if Popen() raised.
AfterLaunchFailure(dsk, t) ==
    { dsk } \cup
    IF call_list[t].build_dir \in DOMAIN dsk
    THEN { WriteFile(dsk, call_list[t].build_dir, OutputFile(call_list[t].category),
                     [from |-> "failed launch", file |-> call_list[t].name]) }
    ELSE {}

\* Faulty variant of LaunchFails: the exception is not caught in execute and
\* ends the thread.
LaunchFailsEscapes(t) ==
    /\ t \in Tasks
    /\ wpc[t] = "started"
    /\ wpc' = [wpc EXCEPT ![t] = "dead"]
    /\ disk' \in AfterLaunchFailure(disk, t)
    /\ UNCHANGED << mainFrame, returncode, launches, report, puts, q >>

\* Faulty variant of LaunchFails: the except branch puts nothing on the queue.
LaunchFailsNoPut(t) ==
    /\ t \in Tasks
    /\ wpc[t] = "started"
    /\ report' = [report EXCEPT ![t] = "fail"]
    /\ wpc' = [wpc EXCEPT ![t] = "dead"]
    /\ disk' \in AfterLaunchFailure(disk, t)
    /\ UNCHANGED << mainFrame, returncode, launches, puts, q >>

\* execute when open() or Popen() raises: the except branch prints the
\* failure, puts True on the queue, and the thread ends.
LaunchFails(t) ==
    /\ t \in Tasks
    /\ wpc[t] = "started"
    /\ report' = [report EXCEPT ![t] = "fail"]
    /\ q' = Append(q, TRUE)
    /\ puts' = [puts EXCEPT ![t] = @ + 1]
    /\ wpc' = [wpc EXCEPT ![t] = "dead"]
    /\ disk' \in AfterLaunchFailure(disk, t)
    /\ UNCHANGED << mainFrame, returncode, launches >>

\* Faulty variant of Outcome: every exit code is reported as a success.
OutcomeAlwaysOk(c) == "ok"

\* `if proc.returncode == 0`: CLI.ok, else CLI.fail.
Outcome(c) == IF c = 0 THEN "ok" ELSE "fail"

\* Faulty variant of Puts: nothing is put on the queue.
PutsNothing(outcome) == << >>

\* What execute puts on the queue after the outcome it printed.
Puts(outcome) == IF outcome = "fail" THEN << TRUE >> ELSE << >>

\* Faulty variant of Finish: execute prints nothing when the process has
\* ended; a failure is only put on the queue.
FinishSilent(t, c) ==
    /\ t \in Tasks
    /\ wpc[t] = "running"
    /\ returncode' = [returncode EXCEPT ![t] = c]
    /\ q' = IF c = 0 THEN q ELSE Append(q, TRUE)
    /\ puts' = [puts EXCEPT ![t] = IF c = 0 THEN @ ELSE @ + 1]
    /\ wpc' = [wpc EXCEPT ![t] = "dead"]
    /\ UNCHANGED << mainFrame, launches, disk, report >>

\* Faulty variant of Finish: a failed executable is launched a second time.
FinishRetry(t, c) ==
    /\ t \in Tasks
    /\ wpc[t] = "running"
    /\ IF c # 0 /\ Len(launches[t]) < 2
       THEN /\ wpc' = [wpc EXCEPT ![t] = "started"]
            /\ UNCHANGED << returncode, report, q, puts >>
       ELSE /\ returncode' = [returncode EXCEPT ![t] = c]
            /\ report' = [report EXCEPT ![t] = IF c = 0 THEN "ok" ELSE "fail"]
            /\ q' = IF c = 0 THEN q ELSE Append(q, TRUE)
            /\ puts' = [puts EXCEPT ![t] = IF c = 0 THEN @ ELSE @ + 1]
            /\ wpc' = [wpc EXCEPT ![t] = "dead"]
    /\ UNCHANGED << mainFrame, launches, disk >>

\* The rest of execute: the external process ends with exit code c,
\* proc.wait() returns, execute prints CLI.ok for exit code 0, else CLI.fail
\* and q.put(True); then the thread ends.
Finish(t, c) ==
    /\ t \in Tasks
    /\ wpc[t] = "running"
    /\ returncode' = [returncode EXCEPT ![t] = c]
    /\ report' = [report EXCEPT ![t] = Outcome(c)]
    /\ q' = q \o Puts(Outcome(c))
    /\ puts' = [puts EXCEPT ![t] = @ + Len(Puts(Outcome(c)))]
    /\ wpc' = [wpc EXCEPT ![t] = "dead"]
    /\ UNCHANGED << mainFrame, launches, disk >>

\* ------------------------------------------------------------------- Next

Next ==
    \/ show_log
    \/ load_landscape
    \/ validate
    \/ wait_for_key
    \/ setup_infrastructures
    \/ fire_threads
    \/ StartJob
    \/ PollWhile
    \/ PollFor
    \/ DrainBegin
    \/ Get
    \/ Return
    \/ AfterBatch
    \/ \E t \in Tasks : Launch(t)
    \/ \E t \in Tasks : LaunchFails(t)
    \/ \E t \in Tasks, c \in ExitCodes : Finish(t, c)

Spec == Init /\ [][Next]_vars

\* The main thread and the started worker threads are scheduled, and every
\* launched external process ends.  Nothing makes the operator press a key.
Fairness ==
    /\ WF_vars(load_landscape \/ validate \/ setup_infrastructures \/ fire_threads
                  \/ StartJob \/ PollWhile \/ PollFor \/ DrainBegin \/ Get \/ Return
                  \/ AfterBatch)
    /\ \A t \in 1..MaxInfra :
          /\ WF_vars(Launch(t) \/ LaunchFails(t))
          /\ WF_vars(\E c \in ExitCodes : Finish(t, c))

\* Whether fire_threads returns depends on the batch, not on how its plan was
\* resolved: termination is checked for the landscapes over these
\* configurations.
FairConfigs ==
    { Config(<<"aws">>, <<"salt">>),
      Config(<<"nope">>, <<"salt">>),
      ConfigNoProvisioner(<<"aws">>),
      [hosts |-> YList, provisioner |-> Str(<<"salt">>)] }

\* destroy differs from deploy in nothing but the argument handed to the
\* executables.
FairInit ==
    /\ Init
    /\ command # "destroy"
    /\ \A n \in DOMAIN source.content : source.content[n] \in FairConfigs

FairSpec == FairInit /\ [][Next]_vars /\ Fairness

\* The positions of main inside fire_threads.
BatchRunning == { "start", "while", "for", "drain", "get" }

\* signal.signal(signal.SIGINT, signal_handler) is the first statement of
\* main.  The handler prints threading.active_count(), sleeps three seconds
\* and returns: the interrupted code goes on where it was.
signal_handler ==
    /\ mpc # "exited"
    /\ interrupted' = IF mpc \in BatchRunning THEN "in batch" ELSE "before batch"
    /\ UNCHANGED << inputVars, shown, lastkey, disk, landscape, mpc, exitcode, msgs,
                    infrastructures, built, engineVars >>

\* The runs in which the operator may press Ctrl-C.
SigNext == Next \/ signal_handler
SigSpec == Init /\ [][SigNext]_vars

\* ----------------------------------------------------------------- claims

\* The process of task t was launched and ended with exit code 0.
ProcessSucceeded(t) == Len(launches[t]) = 1 /\ returncode[t] = 0

\* The process of task t ended with another exit code.
ProcessFailed(t) == Len(launches[t]) = 1 /\ returncode[t] \notin { 0, -1 }

\* The thread of task t ended without a process having been launched.
NotLaunched(t) == wpc[t] = "dead" /\ launches[t] = << >>

\* fire_threads has returned.
Returned == result # "none"

\* C1: what fire_threads returns is the logical AND of the task results: it
\* returns True iff every task's process was launched and ended with exit code
\* 0, and False iff some task's process ended with another code or could not
\* be launched.
C1_BatchResultIsAnd ==
    Returned =>
        /\ (result = "True") <=> (\A t \in Tasks : ProcessSucceeded(t))
        /\ (result = "False") <=> (\E t \in Tasks : ProcessFailed(t) \/ NotLaunched(t))

\* A batch of three has returned False with one task of each kind.
C1_Witness ==
    /\ mpc = "returned"
    /\ result = "False"
    /\ Len(call_list) = 3
    /\ ProcessSucceeded(1)
    /\ NotLaunched(2)
    /\ ProcessFailed(3)

\* A task has failed.
TaskFailed(t) == report[t] = "fail"

\* Task t fails in this step.
Fails(t) == report[t] = "none" /\ report'[t] = "fail"

\* C2: no fail-fast.  Once the start loop of fire_threads is over, every task
\* of the batch has been started, whatever has failed by then; a step in
\* which a task fails leaves the thread and the process of every other task
\* as they are; and fire_threads has not returned while a task is not in a
\* terminal state.
C2_NoFailFast ==
    /\ [](mpc \in { "while", "for", "drain", "get", "returned" }
            => \A t \in Tasks : wpc[t] # "created")
    /\ [](Returned => \A t \in Tasks : wpc[t] = "dead" /\ report[t] # "none")
    /\ [][\A t \in Tasks : Fails(t) =>
              \A u \in Tasks \ { t } : wpc'[u] = wpc[u] /\ returncode'[u] = returncode[u]]_vars

\* The first task has failed before the second one is started, and the third
\* one is started as well.
C2_Witness ==
    /\ mpc = "start"
    /\ Len(call_list) = 3
    /\ TaskFailed(1)
    /\ wpc[2] = "running"
    /\ wpc[3] = "created"

\* C3: if every launched process ends, fire_threads returns: the polling loop
\* empties the job list although it removes from the list it iterates over,
\* and no q.get() of the drain waits on an empty queue.
C3_WaitForAllTerminates ==
    /\ (mpc = "start") ~> (mpc = "returned")
    /\ [](mpc = "get" /\ toget > 0 => q # << >>)

\* The for loop has removed job 1 at index 0 and will next look at index 1,
\* which is job 3 now: the dead job 2 is skipped in this pass.
C3_Witness ==
    /\ mpc = "for"
    /\ jobs = << 2, 3 >>
    /\ fi = 1
    /\ wpc[2] = "dead"

\* The state of task t in the terms of the task state machine: PENDING until
\* its process is launched, RUNNING until the process has ended, then
\* SUCCEEDED (CLI.ok is printed) or FAILED (CLI.fail is printed).
TaskState(t) ==
    IF report[t] = "ok" THEN "SUCCEEDED"
    ELSE IF report[t] = "fail" THEN "FAILED"
    ELSE IF wpc[t] = "running" THEN "RUNNING"
    ELSE "PENDING"

\* The infrastructure of the plan task t is for.
InfraOf(t) == CHOOSE n \in DOMAIN infrastructures : Name(n) = call_list[t].name

\* The plan's directory of the executable of task t.
PlanDir(t) ==
    IF command = "provide"
    THEN infrastructures[InfraOf(t)].provisioner_dir
    ELSE infrastructures[InfraOf(t)].provider_dir

\* The one launch the claims allow for task t.
ExpectedLaunch(t) ==
    [executable |-> << PlanDir(t), Category >>,
     command |-> command,
     cwd |-> infrastructures[InfraOf(t)].build_dir]

\* C4, as stated: every change of a task's state is PENDING -> RUNNING,
\* RUNNING -> SUCCEEDED or RUNNING -> FAILED.
C4_Original ==
    [][\A t \in Tasks :
          TaskState(t)' # TaskState(t) =>
              << TaskState(t), TaskState(t)' >> \in
                  { << "PENDING", "RUNNING" >>, << "RUNNING", "SUCCEEDED" >>,
                    << "RUNNING", "FAILED" >> }]_vars

\* C4, amended: a task also goes from PENDING straight to FAILED, when its
\* log file cannot be opened or its executable cannot be launched.  Otherwise
\* as stated: it is RUNNING only after the one launch of <dir>/<category> with
\* the requested command in build_dir, it ends SUCCEEDED exactly when the exit
\* code is 0, and a terminal state is never left.
C4_StateMachine ==
    /\ [][\A t \in Tasks :
            TaskState(t)' # TaskState(t) =>
                \/ << TaskState(t), TaskState(t)' >> \in
                      { << "PENDING", "RUNNING" >>, << "RUNNING", "SUCCEEDED" >>,
                        << "RUNNING", "FAILED" >> }
                \/ /\ << TaskState(t), TaskState(t)' >> = << "PENDING", "FAILED" >>
                   /\ launches'[t] = << >>]_vars
    /\ [](\A t \in Tasks :
            /\ TaskState(t) = "RUNNING" => launches[t] = << ExpectedLaunch(t) >>
            /\ TaskState(t) = "PENDING" => launches[t] = << >>
            /\ TaskState(t) = "SUCCEEDED" => ProcessSucceeded(t)
            /\ TaskState(t) = "FAILED" => ProcessFailed(t) \/ NotLaunched(t))

\* One task has succeeded, one is running and one has failed without a launch.
C4_Witness ==
    /\ Len(call_list) = 3
    /\ TaskState(1) = "SUCCEEDED"
    /\ TaskState(2) = "RUNNING"
    /\ TaskState(3) = "FAILED"
    /\ NotLaunched(3)

\* fire_threads has been entered.
InBatch == mpc \in { "start", "while", "for", "drain", "get", "returned" } \/ Returned

\* C5: a batch has exactly one task for each infrastructure of the plan, and
\* so for each infrastructure of the landscape; every task is started by the
\* start loop; no task launches its executable more than once.
C5_OneTaskOneLaunch ==
    InBatch =>
        /\ Len(call_list) = Cardinality(DOMAIN infrastructures)
        /\ Len(call_list) = Len(source.content)
        /\ \A n \in DOMAIN infrastructures :
              Cardinality({ t \in Tasks : call_list[t].name = Name(n) }) = 1
        /\ mpc # "start" => \A t \in Tasks : wpc[t] # "created"
        /\ \A t \in Tasks : Len(launches[t]) <= 1

\* The run has ended with every one of three executables failed, each
\* launched once.
C5_Witness ==
    /\ mpc = "exited"
    /\ Len(call_list) = 3
    /\ \A t \in Tasks : ProcessFailed(t) /\ wpc[t] = "dead"

\* C6, as stated: when fire_threads returns, every task has put one result
\* on the queue, as many were taken, and the queue is empty.
C6_Original ==
    Returned =>
        /\ \A t \in Tasks : puts[t] = 1
        /\ Len(thread_errors) = Len(call_list)
        /\ q = << >>

\* C6, amended: the queue carries failures only.  When fire_threads returns,
\* every failed task has put exactly one item on the queue and every
\* successful task none, as many items were taken as tasks failed, and the
\* queue is empty.
C6_OneResultPerFailedTask ==
    Returned =>
        /\ \A t \in Tasks : puts[t] = IF TaskFailed(t) THEN 1 ELSE 0
        /\ Len(thread_errors) = Cardinality({ t \in Tasks : TaskFailed(t) })
        /\ q = << >>

\* fire_threads has returned after two failures and one success.
C6_Witness ==
    /\ mpc = "returned"
    /\ Len(call_list) = 3
    /\ report[1] = "ok"
    /\ NotLaunched(2)
    /\ ProcessFailed(3)
    /\ Len(thread_errors) = 2

\* The provider of a configuration has no executable.
ProviderMissing(config) == ~ProviderExecutable(SplitRef(config["provider"]).name)

\* The provisioner of a configuration is not given or has no executable.
ProvisionerAbsent(config) == "provisioner" \notin DOMAIN config
ProvisionerMissing(config) ==
    /\ ~ProvisionerAbsent(config)
    /\ ~ProvisionerExecutable(SplitRef(config["provisioner"]).name)

\* The landscape file of this run passes loading and the schema.
WellFormed ==
    /\ command \notin ShowCommands
    /\ source.readable
    /\ source.content # << >>
    /\ SchemaViolations(source.content) = {}

\* A plan cannot be resolved from the landscape of this run.
ResolutionFails ==
    /\ WellFormed
    /\ \E n \in DOMAIN source.content :
          \/ ProviderMissing(source.content[n])
          \/ ProvisionerAbsent(source.content[n])
          \/ ProvisionerMissing(source.content[n])

\* Loading, schema validation or plan resolution of this run fails.
ConfigError ==
    /\ command \notin ShowCommands
    /\ ~WellFormed \/ ResolutionFails

NoSideEffect == built = {} /\ \A t \in Tasks : launches[t] = << >>

\* C7: a run whose landscape fails loading, schema validation or plan
\* resolution ends with exit code 2, no executable launched and no build
\* directory created or written.
C7_ConfigErrorsExit2 ==
    (mpc = "exited" /\ ConfigError) => (exitcode = 2 /\ NoSideEffect)

\* The run was declined at the gate, or failed in setup_infrastructures.
Declined == interactive /\ msgs = << [kind |-> "User interruption"] >>
SetupFailed ==
    /\ Len(msgs) = 1
    /\ msgs[1].kind = "Error setting up build directory"

\* The exit code after a batch: 0 iff every task succeeded, 3 if one failed.
BatchExitCode ==
    (mpc = "exited" /\ call_list # << >>) =>
        /\ (exitcode = 0) <=> (\A t \in Tasks : ProcessSucceeded(t))
        /\ (\E t \in Tasks : ProcessFailed(t) \/ NotLaunched(t)) => exitcode = 3

Named(kind, ref) ==
    \E k \in 1..Len(msgs) : msgs[k] \in [kind : { kind }, ref : { ref }, path : { msgs[k].path }]

MissingProviders == { n \in DOMAIN source.content : ProviderMissing(source.content[n]) }

\* C9: when two or more infrastructures of a landscape that passes the schema
\* reference a provider without executable, validate ends with exit code 2
\* and an error that names the provider of every one of them.
C9_AllMissingProvidersNamed ==
    (mpc = "exited" /\ WellFormed /\ Cardinality(MissingProviders) >= 2) =>
        /\ exitcode = 2
        /\ \A n \in MissingProviders : Named("Provider", source.content[n]["provider"])

\* validate ended with the aggregated resolution error.
ResolutionError ==
    /\ mpc = "exited"
    /\ WellFormed
    /\ exitcode = 2
    /\ infrastructures = << >>
    /\ ~Declined

\* C10: the resolution error lists every executable that is missing, the
\* provider's and the provisioner's, also when both of one infrastructure
\* are missing.
C10_EveryMissingExecutableListed ==
    ResolutionError =>
        \A n \in DOMAIN source.content :
            /\ ProviderMissing(source.content[n]) =>
                  Named("Provider", source.content[n]["provider"])
            /\ ProvisionerMissing(source.content[n]) =>
                  Named("Provisioner", source.content[n]["provisioner"])

\* validate was entered with a decoded landscape and has ended.
ValidateEnded ==
    /\ source.readable
    /\ source.content # << >>
    /\ mpc \notin { "main", "validate" }

\* The names of the infrastructures in a set of places of the mapping.
Names(places) == { Name(n) : n \in places }

\* C11: validate ends in one of two ways for every decoded landscape, also
\* one that passes the schema with an infrastructure without `provisioner`:
\* it returns a plan whose names are exactly the names of the landscape, or
\* the process ends with an error message and exit code 2 and there is no
\* plan.
C11_TwoOutcomes ==
    ValidateEnded =>
        \/ Names(DOMAIN infrastructures) = Names(DOMAIN source.content)
        \/ /\ infrastructures = << >>
           /\ mpc = "exited"
           /\ exitcode = 2
           /\ msgs # << >>

\* The provider and provisioner references of a configuration.
Refs(config) ==
    { << kind, config[key] >> :
         << kind, key >> \in { << "Provider", "provider" >>, << "Provisioner", "provisioner" >> }
                             \cap ({ "Provider", "Provisioner" } \X DOMAIN config) }

\* A reference of more than two words.
Malformed(ref) == Len(ref.tokens) > 2

\* C12: a reference of more than two words is rejected with an error that
\* names it, and no plan is returned; a plan entry comes from references of
\* one word (the name, no arguments) or two (the name and the arguments).
C12_ReferenceParsed ==
    /\ (ValidateEnded /\ SchemaViolations(source.content) = {}) =>
          \A n \in DOMAIN source.content : \A r \in Refs(source.content[n]) :
              Malformed(r[2]) =>
                  /\ infrastructures = << >>
                  /\ mpc = "exited"
                  /\ exitcode = 2
                  /\ Named(r[1], r[2])
    /\ \A n \in DOMAIN infrastructures :
          LET p == infrastructures[n].config["provider"].tokens IN
          /\ Len(p) \in { 1, 2 }
          /\ infrastructures[n].provider_dir = ProviderDir(<< p[1] >>)
          /\ infrastructures[n].provider_args = SubSeq(p, 2, Len(p))

\* The landscape file renders and decodes to nothing.
EmptyLandscape ==
    /\ command \notin ShowCommands
    /\ source.readable
    /\ source.content = << >>

\* C13: the empty landscape is rejected by the loader with exit code 2 and
\* its own message; validate, the gate and everything after them are never
\* entered, and there is never a plan.
C13_EmptyRejectedByLoader ==
    EmptyLandscape =>
        /\ mpc \in { "main", "exited" }
        /\ infrastructures = << >>
        /\ mpc = "exited" =>
              /\ exitcode = 2
              /\ msgs = << [kind |-> "The landscape is empty"] >>

\* A run on the empty landscape has ended.
C13_Witness == EmptyLandscape /\ mpc = "exited" /\ exitcode = 2

\* The process ended in validate's schema check.
SchemaFailure ==
    /\ source.readable
    /\ SchemaViolations(source.content) # {}
    /\ mpc = "exited"

\* The schema error names field f of the infrastructure at place n.
FieldNamed(n, f) ==
    \E i \in 1..Len(msgs) :
        /\ msgs[i].kind = "Key error"
        /\ msgs[i].name = Name(n)
        /\ f \in msgs[i].fields

\* C14: the one error of the schema check names every violating field of
\* every violating infrastructure, and ends the run with exit code 2; a
\* landscape whose configurations have the two keys with the right types,
\* whatever other keys they have, never ends in the schema error.
C14_SchemaErrorsAggregated ==
    /\ SchemaFailure =>
          /\ exitcode = 2
          /\ \A n \in SchemaViolations(source.content) :
                \A f \in WrongType(source.content[n]) \cup MissingKeys(source.content[n]) :
                    FieldNamed(n, f)
    /\ (ValidateEnded /\ \A n \in DOMAIN source.content :
                             WrongType(source.content[n]) \cup MissingKeys(source.content[n]) = {}) =>
          \A i \in 1..Len(msgs) : msgs[i].kind # "Errors during schema validation"

\* The build directory of the infrastructure at place n is there and holds
\* a descriptor written by this run from the plan.
SetUp(n) ==
    /\ n \in built
    /\ infrastructures[n].build_dir \in DOMAIN disk
    /\ "config_provider" \in DOMAIN disk[infrastructures[n].build_dir]
    /\ \E m \in DOMAIN infrastructures :
          /\ infrastructures[m].build_dir = infrastructures[n].build_dir
          /\ disk[infrastructures[n].build_dir]["config_provider"] = Descriptor(m)

\* C15, as stated: for deploy, destroy and provide, every infrastructure of
\* the plan is set up before the batch starts.
C15_Original == InBatch => \A n \in DOMAIN infrastructures : SetUp(n)

\* C15: for deploy and destroy every infrastructure of the plan is set up
\* before the first thread is created, and so before the first launch; for
\* provide nothing is set up: no build directory is created and no
\* descriptor is written at any time of the run.
C15_SetupBeforeLaunch ==
    /\ (InBatch /\ command \in { "deploy", "destroy" }) =>
          \A n \in DOMAIN infrastructures : SetUp(n)
    /\ command = "provide" =>
          /\ built = {}
          /\ DOMAIN disk = DOMAIN PriorDisk
          /\ \A d \in DOMAIN disk : disk[d]["config_provider"] = PriorDisk[d]["config_provider"]

\* A deploy has launched a task for one of two or more infrastructures.
C15_Witness ==
    /\ command = "deploy"
    /\ Len(call_list) >= 2
    /\ \E t \in Tasks : launches[t] # << >>

\* The log file task t writes while its process runs.
LogOf(t) == << call_list[t].build_dir, OutputFile(call_list[t].category) >>

\* C16: the build directory of an infrastructure is given by its name alone;
\* two infrastructures of a plan never have the same build directory; two
\* tasks whose processes run at the same time never have the same working
\* directory or the same log file.
C16_ExclusiveBuildDirs ==
    /\ \A n \in DOMAIN infrastructures :
          infrastructures[n].build_dir = BuildDir(Name(n))
    /\ \A n, m \in DOMAIN infrastructures :
          n # m => infrastructures[n].build_dir # infrastructures[m].build_dir
    /\ \A t, u \in Tasks :
          (t # u /\ wpc[t] = "running" /\ wpc[u] = "running") =>
              /\ launches[t][1].cwd # launches[u][1].cwd
              /\ LogOf(t) # LogOf(u)

\* Every directory and file of dsk is in dsk2, and every file but the
\* descriptors has the content it had.
Preserved(dsk, dsk2) ==
    \A d \in DOMAIN dsk :
        /\ d \in DOMAIN dsk2
        /\ \A f \in DOMAIN dsk[d] :
              /\ f \in DOMAIN dsk2[d]
              /\ f # "config_provider" => dsk2[d][f] = dsk[d][f]

\* The disk after one more run of setup_infrastructures over the places, in
\* the plan's order.
RECURSIVE SetupAll(_, _)
SetupAll(dsk, places) ==
    IF places = {}
    THEN dsk
    ELSE LET n == CHOOSE p \in places : \A o \in places : p <= o
         IN  SetupAll(SetupDir(dsk, n), places \ { n })

\* C17: every step of setup_infrastructures keeps every directory and every
\* file that is there, and changes no file but config_provider; when it has
\* run, what the earlier run left is still there, and running it once more
\* would leave the disk as it is.
C17_SetupPreserves ==
    /\ [][mpc = "setup" => Preserved(disk, disk')]_vars
    /\ [](mpc = "fire" /\ command \in { "deploy", "destroy" } =>
             /\ Preserved(PriorDisk, disk)
             /\ SetupAll(disk, DOMAIN infrastructures) = disk)

\* The set-up has run over two or more infrastructures, one of them with a
\* build directory of an earlier run: its descriptor is the new one, the
\* other files are there.
C17_Witness ==
    /\ mpc = "fire"
    /\ command = "deploy"
    /\ Cardinality(DOMAIN infrastructures) >= 2
    /\ \E n \in DOMAIN infrastructures :
          /\ infrastructures[n].build_dir \in DOMAIN PriorDisk
          /\ disk[infrastructures[n].build_dir]["config_provider"] = Descriptor(n)
          /\ "terraform.tfstate" \in DOMAIN disk[infrastructures[n].build_dir]

\* C18: once SIGINT has arrived while a batch is running, no further
\* executable is launched, and the process ends with an exit code other
\* than 0, whatever the exit codes of the executables.
C18_InterruptEndsRun ==
    /\ [](interrupted = "in batch" /\ mpc = "exited" => exitcode # 0)
    /\ [][interrupted = "in batch" => \A t \in Tasks : launches'[t] = launches[t]]_vars

\* The launch of task t fails in this step: its thread ends and no process
\* was launched.
LaunchFailure(t) == wpc[t] = "started" /\ wpc'[t] = "dead" /\ launches'[t] = << >>

\* C19: a launch that fails (the log cannot be opened, the executable cannot
\* be started) is caught in its worker: the step reports the failure of that
\* task, puts one item on the queue and leaves the main thread and every
\* other worker as they are; a task that was not launched has failed and put
\* once; fire_threads returns only when every other task has ended as well,
\* and returns False; the run then ends with exit code 3.
C19_WorkerFailureContained ==
    /\ [][\A t \in Tasks : LaunchFailure(t) =>
              /\ report'[t] = "fail"
              /\ puts'[t] = puts[t] + 1
              /\ q' = Append(q, TRUE)
              /\ mpc' = mpc /\ exitcode' = exitcode /\ jobs' = jobs
              /\ \A u \in Tasks \ { t } :
                    /\ wpc'[u] = wpc[u]
                    /\ report'[u] = report[u]
                    /\ puts'[u] = puts[u]
                    /\ launches'[u] = launches[u]]_vars
    /\ [](\A t \in Tasks : NotLaunched(t) => report[t] = "fail" /\ puts[t] = 1)
    /\ []((Returned /\ \E t \in Tasks : NotLaunched(t)) =>
             /\ result = "False"
             /\ \A u \in Tasks : wpc[u] = "dead" /\ report[u] # "none")
    /\ []((mpc = "exited" /\ \E t \in Tasks : NotLaunched(t)) => exitcode = 3)

\* The run of a batch of three has ended: the launch of the second task
\* failed, the other two processes ended with exit code 0.
C19_Witness ==
    /\ mpc = "exited"
    /\ Len(call_list) = 3
    /\ NotLaunched(2)
    /\ ProcessSucceeded(1)
    /\ ProcessSucceeded(3)
    /\ exitcode = 3

\* Nothing below <cwd>/build was created or written and nothing was launched.
Untouched == NoSideEffect /\ disk = PriorDisk

\* C20: in an interactive run nothing is set up and nothing launched unless
\* the last key read was 'Y'; the key 'n' ends the run with exit code 2 and
\* nothing touched; reading any other key changes nothing and leaves main at
\* the gate; a run with --non-interactive reads no key and passes the gate
\* in its one step there.
C20_ConfirmationGate ==
    /\ []((interactive /\ lastkey # "Y") =>
             /\ Untouched
             /\ mpc \in { "main", "validate", "gate", "exited" })
    /\ [](lastkey = "n" => mpc = "exited" /\ exitcode = 2 /\ Untouched)
    /\ [](~interactive => lastkey = "none")
    /\ [][lastkey' \notin { "Y", "n", "none" } =>
              /\ mpc = "gate" /\ mpc' = "gate"
              /\ UNCHANGED << exitcode, msgs, infrastructures, built, disk, engineVars >>]_vars
    /\ [][(mpc = "gate" /\ ~interactive) => mpc' = AfterGate]_vars

\* An interactive deploy has launched an executable after the keys read at
\* the gate ended with 'Y'.
C20_Witness ==
    /\ interactive
    /\ command = "deploy"
    /\ lastkey = "Y"
    /\ \E t \in Tasks : launches[t] # << >>

\* The log the show command was asked for is on the disk main was started on.
LogIsThere == LogDir \in DOMAIN PriorDisk /\ LogFile \in DOMAIN PriorDisk[LogDir]

\* C21: a show command never loads or validates a landscape, never changes
\* a file or directory below build, and never creates a task; it ends with
\* exit code 0 after it has printed the one log it was asked for and nothing
\* else, or with exit code 3 and the read error after it has printed
\* nothing, and always so when that log is not there.
C21_LogViewerPureRead ==
    command \in ShowCommands =>
        /\ mpc \in { "main", "exited" }
        /\ landscape = << >>
        /\ infrastructures = << >>
        /\ disk = PriorDisk
        /\ built = {}
        /\ call_list = << >> /\ Tasks = {}
        /\ mpc = "main" => shown = << >>
        /\ mpc = "exited" =>
              \/ /\ exitcode = 0
                 /\ msgs = << >>
                 /\ LogIsThere
                 /\ shown = << PriorDisk[LogDir][LogFile] >>
              \/ /\ exitcode = 3
                 /\ msgs = << [kind |-> "Error reading log"] >>
                 /\ shown = << >>

\* show-provider has printed the log an earlier run left.
C21_Witness ==
    /\ command = "show-provider"
    /\ mpc = "exited"
    /\ exitcode = 0
    /\ shown # << >>

\* The process has ended after a batch.
EndedAfterBatch == mpc = "exited" /\ call_list # << >>

ProvisionerAfterProvider(t, u) ==
    /\ call_list[t].name = call_list[u].name
    /\ call_list[t].category = "provisioner"
    /\ call_list[u].category = "provider"

\* C23: a provisioner task has not been started unless the provider task of
\* the same infrastructure in this run, if there is one, has ended with exit
\* code 0; the provider and the provisioner of one infrastructure never run
\* at the same time; the tasks of a run are the provisioners for provide and
\* the providers for deploy and destroy, and what they launch is the
\* executable of that category.
C23_ProviderBeforeProvisioner ==
    /\ \A t, u \in Tasks :
          ProvisionerAfterProvider(t, u) =>
              /\ wpc[t] # "created" => ProcessSucceeded(u)
              /\ ~(wpc[t] = "running" /\ wpc[u] = "running")
    /\ \A t \in Tasks :
          /\ call_list[t].category = Category
          /\ \A i \in 1..Len(launches[t]) : launches[t][i].executable[2] = Category

\* A run of provide has launched the provisioner of one of its two or more
\* infrastructures, and every task of the run is a provisioner task.
C23_Witness ==
    /\ command = "provide"
    /\ Len(call_list) >= 2
    /\ \E t \in Tasks : wpc[t] = "running" /\ launches[t][1].executable[2] = "provisioner"
    /\ \A t \in Tasks : call_list[t].category = "provisioner"

\* The descriptor of the infrastructure at place n is on the disk dsk.
Written(dsk, n) ==
    /\ infrastructures[n].build_dir \in DOMAIN dsk
    /\ "config_provider" \in DOMAIN dsk[infrastructures[n].build_dir]
    /\ dsk[infrastructures[n].build_dir]["config_provider"] = Descriptor(n)

\* The error of a failed set-up of the infrastructure at place n.
SetupErrors(n) ==
    { << [kind |-> "Error setting up build directory", name |-> Name(n), err |-> e] >> :
         e \in { "mkdir fails", "write fails" } }

\* C24: a step of setup_infrastructures that does not leave the descriptor
\* of the infrastructure it is at ends the run with exit code 2 and an error
\* that names this infrastructure and the I/O error; nothing happens after
\* the end of the run; a run that has ended so has set up no later
\* infrastructure and has no task.
C24_SetupFailureIsFatal ==
    /\ [][(mpc = "setup" /\ ToSetUp # {} /\ ~Written(disk', NextToSetUp)) =>
              /\ mpc' = "exited"
              /\ exitcode' = 2
              /\ msgs' \in SetupErrors(NextToSetUp)]_vars
    /\ [][mpc # "exited"]_vars
    /\ [](SetupFailed =>
             /\ mpc = "exited" /\ exitcode = 2
             /\ call_list = << >> /\ Tasks = {}
             /\ \E n \in DOMAIN infrastructures :
                   /\ msgs \in SetupErrors(n)
                   /\ \A m \in DOMAIN infrastructures :
                         /\ m < n => m \in built
                         /\ m > n => m \notin built)

\* The set-up of the second of three infrastructures has failed: the first
\* is set up, the third is not, and the run has ended.
C24_Witness ==
    /\ SetupFailed
    /\ Cardinality(DOMAIN infrastructures) = 3
    /\ msgs \in SetupErrors(2)
    /\ Written(disk, 1)
    /\ 3 \notin built

\* The arguments of a reference: its second word, none if it has one word.
ArgsOf(ref) == IF Len(ref.tokens) = 2 THEN << ref.tokens[2] >> ELSE << >>

\* C25: every entry of the plan has the fields provider_dir, provider_args,
\* provisioner_dir, provisioner_args, build_dir and provisioner_config; the
\* arguments are the second word of the provider and of the provisioner
\* reference, or none; the name in the configuration is the key of the
\* infrastructure in the landscape.
C25_PlanEntryComplete ==
    \A n \in DOMAIN infrastructures :
        LET entry == infrastructures[n] IN
        /\ { "config", "provider_dir", "provider_args", "provisioner_dir",
             "provisioner_args", "build_dir", "provisioner_config" } \subseteq DOMAIN entry
        /\ entry.provider_args = ArgsOf(source.content[n]["provider"])
        /\ entry.provisioner_args = ArgsOf(source.content[n]["provisioner"])
        /\ entry.config["name"] = Name(n)

\* The worker of task t takes this step.
WorkerStep(t) == wpc[t] \in { "started", "running" } /\ wpc'[t] # wpc[t]

\* The step changes nothing on disk but the file `file` of directory `dir`.
WritesOnly(dir, file) ==
    /\ DOMAIN disk' = DOMAIN disk
    /\ \A d \in DOMAIN disk :
          /\ DOMAIN disk'[d] \subseteq DOMAIN disk[d] \cup (IF d = dir THEN { file } ELSE {})
          /\ \A f \in DOMAIN disk[d] :
                /\ f \in DOMAIN disk'[d]
                /\ (d # dir \/ f # file) => disk'[d][f] = disk[d][f]

\* What the process of task t writes to its log.
OwnLog(t) == [from |-> "task", file |-> call_list[t].name]

\* C26: a step of the worker of a task changes no file but the log of its
\* category in its build directory, and nothing in the build directory of
\* the infrastructure of another task; when fire_threads has returned, the
\* log of every task that succeeded is what its own process wrote, and with
\* deploy and destroy its descriptor is the one written for it.
C26_TaskFrame ==
    /\ [][\A t \in Tasks : WorkerStep(t) =>
              /\ WritesOnly(call_list[t].build_dir, OutputFile(call_list[t].category))
              /\ \A u \in Tasks \ { t } :
                    call_list[u].build_dir \in DOMAIN disk =>
                        disk'[call_list[u].build_dir] = disk[call_list[u].build_dir]]_vars
    /\ [](Returned =>
             \A t \in Tasks : ProcessSucceeded(t) =>
                 /\ disk[call_list[t].build_dir][OutputFile(call_list[t].category)] = OwnLog(t)
                 /\ command # "provide" => Written(disk, InfraOf(t)))

====
